---------------------------- MODULE Spec2Model ----------------------------
(***************************************************************************)
(* Appointment booking engine of sbbooking-v2: the appointment routes of   *)
(* server/routes.ts over the appointment methods of DatabaseStorage.       *)
(*                                                                         *)
(* Request bodies are taken after JSON decoding and, for POST, after       *)
(* insertAppointmentSchema.parse: ids are integers and instants are        *)
(* points of a small integer time axis.  The body of a PUT is req.body as  *)
(* it is, not validated: for each of the columns id, patientId, staffId,   *)
(* serviceId, startTime, endTime, status and createdAt it carries nothing, *)
(* a null, or a value.  An instant it carries is the string JSON gives,    *)
(* which the conflict check passes to the database and the update          *)
(* statement cannot encode.  An updatedAt it carries is overwritten by the *)
(* handler's own and is left out of bodies.  The columns notes and         *)
(* recurringRuleId, which no handler reads, are left out of rows and       *)
(* bodies: a body is taken without them.                                   *)
(*                                                                         *)
(* A handler runs step by step: each awaited storage call ends a step, so  *)
(* the steps of two requests may interleave.  Specifications in which      *)
(* requests follow one another are built from the same steps, taken by     *)
(* one client.  A step is a storage statement that runs, followed by what   *)
(* the handler does with its answer up to the call of its next statement:  *)
(* the new Date() of updateAppointment is read when the handler calls it,  *)
(* one step before the update statement runs.                              *)
(***************************************************************************)
EXTENDS Integers, FiniteSets, Sequences, TLC

\* ------------------------------------------------------------------ bounds
MaxTime == 2            \* instants are 0..MaxTime
MaxAppointments == 2    \* serial ids the appointments table hands out
MaxStaff == 3           \* serial ids the staff table hands out

\* the rows of the staff, patients and services tables
StaffIds == {1, 2}
PatientIds == {1, 2}
Times == 0..MaxTime

\* services.capacity (schema.ts 73) by service id: one group service
ServiceCapacity == <<2>>
ServiceIds == DOMAIN ServiceCapacity

\* services.duration (schema.ts 72) by service id, in steps of the time axis
ServiceDuration == <<1>>

\* appointments.status (schema.ts 98): a free text column; the four values
\* the comment names
Statuses == {"scheduled", "completed", "cancelled", "no_show"}

\* markers of a field the request body does not carry
NoId == 0               \* a missing id
NoTime == 0 - 1
NoStatus == "undefined"

\* a null the body of a PUT carries for an id, an instant or the status:
\* the field is supplied, and falsy
NullId == 0 - 2
NullTime == 0 - 2
NullStatus == "null"

\* a falsy value that is not null, carried for an instant: "", 0 or false
FalsyTime == 0 - 3

\* ids the body of a PUT may carry that no row of the table carries
UnknownPatientId == Cardinality(PatientIds) + 1
UnknownStaffId == Cardinality(StaffIds) + 1
UnknownServiceId == Cardinality(ServiceIds) + 1
UnknownAppointmentId == MaxAppointments + 1

\* JavaScript truthiness of a body field, as || and if test it
truthyId(v) == v \notin {NoId, NullId}
truthyTime(v) == v \notin {NoTime, NullTime, FalsyTime}

\* staff.availability (schema.ts 36), an untyped jsonb the staff rows carry:
\* the windows [from, to) of the modelled day.  Staff 1 has no window at all
\* (a null or empty template), every other staff member one window [0, 2).
StaffAvailability == [s \in StaffIds |-> IF s = 1 THEN {} ELSE {<<0, 2>>}]

\* the rows of staff_availability_exclusions (schema.ts 147-154) by staff id,
\* as getStaffExclusions selects them: intervals [startTime, endTime).  No
\* route writes the table; staff 2 is away over [1, 2), inside the window.
getStaffExclusions == [s \in StaffIds |-> IF s = 1 THEN {} ELSE {<<1, 2>>}]

VARIABLES
    appointments,   \* the appointments table: a set of rows
    nextId,         \* the serial of appointments.id
    inflight,       \* per client, the request suspended at an await
    resp,           \* the last HTTP response, and whom or what it was about
    isActive,       \* staff.is_active (schema.ts 35) by staff id
    now,            \* the clock new Date() and defaultNow() read
    userId,         \* staff.user_id (schema.ts 29) by staff id: the owner
    staffInflight   \* per doctor, the staff request suspended at an await

vars ==
    <<appointments, nextId, inflight, resp, isActive, now, userId,
      staffInflight>>

\* ------------------------------------------------------------- the storage

\* getAppointment: the rows with that id (at most one)
getAppointment(store, id) == {a \in store : a.id = id}

\* The where-clause of checkAppointmentConflicts.  drizzle's and() joins its
\* arguments with " and " and puts parentheses around the whole, not around
\* each argument, and a raw sql`` fragment is spliced in as written, so the
\* statement sent is
\*   where (staff_id = $1 OR patient_id = $2
\*          and start_time < $3 AND end_time > $4 and id != $5)
\* in which AND binds tighter than OR: the staff test stands alone, and the
\* interval test and the exclusion apply to the patient test only.
staffMatches(a, staffId) == a.staffId = staffId

patientMatches(a, patientId) == a.patientId = patientId

timesOverlap(a, startTime, endTime) ==
    a.startTime < endTime /\ a.endTime > startTime

notExcluded(a, excludeId) == excludeId # NoId => a.id # excludeId

\* the where-clause with the staff test left out
conflictRowWithoutStaff(a, staffId, patientId, startTime, endTime, excludeId) ==
    /\ patientMatches(a, patientId)
    /\ timesOverlap(a, startTime, endTime)
    /\ notExcluded(a, excludeId)

\* the where-clause with the patient test left out
conflictRowWithoutPatient(a, staffId, patientId, startTime, endTime, excludeId) ==
    staffMatches(a, staffId)

conflictRow(a, staffId, patientId, startTime, endTime, excludeId) ==
    \/ staffMatches(a, staffId)
    \/ /\ patientMatches(a, patientId)
       /\ timesOverlap(a, startTime, endTime)
       /\ notExcluded(a, excludeId)

checkAppointmentConflicts(store, staffId, patientId, startTime, endTime, excludeId) ==
    \E a \in store :
        conflictRow(a, staffId, patientId, startTime, endTime, excludeId)

\* orderBy(asc(startTime)) or orderBy(desc(startTime)) of a select: the
\* sequences the database may return, rows of equal startTime in any order
orderBy(rows, direction) ==
    {q \in [1..Cardinality(rows) -> rows] :
        /\ \A i, j \in DOMAIN q : i # j => q[i] # q[j]
        /\ \A i, j \in DOMAIN q :
              i < j => IF direction = "asc"
                       THEN q[i].startTime <= q[j].startTime
                       ELSE q[i].startTime >= q[j].startTime}

getAllAppointments(store) == orderBy(store, "desc")

\* where start_time >= $startDate and start_time <= $endDate
getAppointmentsByDateRange(store, startDate, endDate) ==
    orderBy({a \in store : a.startTime >= startDate /\ a.startTime <= endDate},
            "asc")

getAppointmentsByStaff(store, staffId) ==
    orderBy({a \in store : a.staffId = staffId}, "desc")

getAppointmentsByPatient(store, patientId) ==
    orderBy({a \in store : a.patientId = patientId}, "desc")

\* createAppointment: insert ... returning; status defaults to 'scheduled',
\* created_at and updated_at to now()
createAppointment(store, id, data) ==
    store \cup {[id        |-> id,
                 createdAt |-> now,
                 updatedAt |-> now,
                 patientId |-> data.patientId,
                 staffId   |-> data.staffId,
                 serviceId |-> data.serviceId,
                 startTime |-> data.startTime,
                 endTime   |-> data.endTime,
                 status    |-> IF data.status = NoStatus
                               THEN "scheduled" ELSE data.status]}

\* the row a after .set({...body, updatedAt: new Date()}): every field the
\* body carries is written, id and createdAt included, and updatedAt with
\* the instant the handler read when it built the statement
setFields(a, body, stamp) ==
    [id        |-> IF body.id # NoId THEN body.id ELSE a.id,
     createdAt |-> IF body.createdAt # NoTime THEN body.createdAt
                                              ELSE a.createdAt,
     updatedAt |-> stamp,
     patientId |-> IF body.patientId # NoId THEN body.patientId ELSE a.patientId,
     staffId   |-> IF body.staffId # NoId THEN body.staffId ELSE a.staffId,
     serviceId |-> IF body.serviceId # NoId THEN body.serviceId ELSE a.serviceId,
     startTime |-> IF body.startTime # NoTime THEN body.startTime ELSE a.startTime,
     endTime   |-> IF body.endTime # NoTime THEN body.endTime ELSE a.endTime,
     status    |-> IF body.status # NoStatus THEN body.status ELSE a.status]

\* the references of appointments (schema.ts 93-95): the insert fails unless
\* the three ids name rows of patients, staff and services
foreignKeysHold(data) ==
    /\ data.patientId \in PatientIds
    /\ data.staffId \in StaffIds
    /\ data.serviceId \in ServiceIds

\* building the update statement throws: drizzle encodes the value of a
\* timestamp column that is not null with toISOString(), which no value of
\* a JSON body has, neither the string of an instant nor "", 0 or false
encoderThrows(body) ==
    \E v \in {body.startTime, body.endTime, body.createdAt} :
        v \in Times \cup {FalsyTime}

\* the update statement fails on the row it would write: a null in a column
\* that is not null (created_at may be null), an id that names no row of
\* the referenced table, or the primary key of another row
constraintFails(store, id, body) ==
    \E a \in store :
        /\ a.id = id
        /\ \/ NullId \in {body.id, body.patientId, body.staffId,
                          body.serviceId}
           \/ NullTime \in {body.startTime, body.endTime}
           \/ body.status = NullStatus
           \/ ~foreignKeysHold(setFields(a, body, NoTime))
           \/ \E b \in store : b.id # a.id /\ b.id = body.id

\* deleteStaff: update staff set is_active = false where id = $id
deleteStaff(active, id) ==
    [s \in DOMAIN active |-> IF s = id THEN FALSE ELSE active[s]]

\* createStaff: insert into staff ... returning, one column of the new row
createStaff(column, id, value) ==
    [s \in DOMAIN column \cup {id} |-> IF s = id THEN value ELSE column[s]]

\* updateStaff: update staff set ... where id = $id, one column
updateStaff(column, id, value) ==
    [s \in DOMAIN column |-> IF s = id THEN value ELSE column[s]]

\* updateAppointment: update ... set ... where id = $id
updateAppointment(store, id, body, stamp) ==
    {IF a.id = id THEN setFields(a, body, stamp) ELSE a : a \in store}

\* a removal that keeps the row and marks it cancelled
cancelAppointment(store, id) ==
    {IF a.id = id THEN [a EXCEPT !.status = "cancelled"] ELSE a : a \in store}

\* deleteAppointment: delete from appointments where id = $id
deleteAppointment(store, id) == {a \in store : a.id # id}

\* ------------------------------------------------------------- the inputs

\* bodies insertAppointmentSchema accepts: the five required columns with
\* any two instants for start and end (the schema does not compare them),
\* and an optional status, a free text
BookInputs ==
    [patientId : PatientIds, staffId : StaffIds, serviceId : ServiceIds,
     startTime : Times, endTime : Times, status : {NoStatus} \cup Statuses]

\* the scheduling fields a PUT body carries
SchedulingFields == {"patientId", "staffId", "startTime", "endTime"}

\* the scheduling fields the body supplies, truthy or not
fieldsOf(b) ==
    {f \in SchedulingFields :
        \/ f = "patientId" /\ b.patientId # NoId
        \/ f = "staffId" /\ b.staffId # NoId
        \/ f = "startTime" /\ b.startTime # NoTime
        \/ f = "endTime" /\ b.endTime # NoTime}

NoBody ==
    [id |-> NoId, patientId |-> NoId, staffId |-> NoId, serviceId |-> NoId,
     startTime |-> NoTime, endTime |-> NoTime, status |-> NoStatus,
     createdAt |-> NoTime]

\* the bodies that carry no scheduling field: a status update
StatusOnlyInputs == {[NoBody EXCEPT !.status = st] : st \in Statuses}

AppointmentIds == 1..MaxAppointments

\* bodies of PUT /api/appointments/:id, which are not validated: each of
\* these columns absent, null or with a value; an id may name no row, and
\* an instant may be another falsy value
PutInputs ==
    [id : {NoId, NullId, UnknownAppointmentId} \cup AppointmentIds,
     patientId : {NoId, NullId, UnknownPatientId} \cup PatientIds,
     staffId : {NoId, NullId, UnknownStaffId} \cup StaffIds,
     serviceId : {NoId, NullId, UnknownServiceId} \cup ServiceIds,
     startTime : {NoTime, NullTime, FalsyTime} \cup Times,
     endTime : {NoTime, NullTime, FalsyTime} \cup Times,
     status : {NoStatus, NullStatus} \cup Statuses,
     createdAt : {NoTime, NullTime, FalsyTime} \cup Times]

\* of those, the bodies that carry scheduling fields only: every subset of
\* the four, each with a null or with a value of its table or of the axis
RescheduleInputs ==
    {[NoBody EXCEPT !.staffId = s, !.patientId = p,
                    !.startTime = t, !.endTime = u] :
        s \in {NoId, NullId} \cup StaffIds,
        p \in {NoId, NullId} \cup PatientIds,
        t \in {NoTime, NullTime} \cup Times,
        u \in {NoTime, NullTime} \cup Times}

\* of those, the bodies that carry one scheduling field, or a staff member
\* with a null for the patient
OneFieldInputs ==
    {[NoBody EXCEPT !.patientId = p] : p \in PatientIds}
        \cup {[NoBody EXCEPT !.staffId = s] : s \in StaffIds}
        \cup {[NoBody EXCEPT !.startTime = t] : t \in Times}
        \cup {[NoBody EXCEPT !.endTime = t] : t \in Times}
        \cup {[NoBody EXCEPT !.staffId = s, !.patientId = NullId] :
                 s \in StaffIds}

\* the bodies that carry an id, alone or with a staff member
IdInputs ==
    {[NoBody EXCEPT !.id = i] : i \in AppointmentIds}
        \cup {[NoBody EXCEPT !.id = i, !.staffId = s] :
                 i \in AppointmentIds, s \in StaffIds}

\* the PUT bodies of the requests that follow one another
DeskPutInputs ==
    StatusOnlyInputs \cup OneFieldInputs \cup IdInputs \cup {NoBody}

\* the query strings of GET /api/appointments: each parameter present or not
Queries ==
    [startDate : {NoTime} \cup Times, endDate : {NoTime} \cup Times,
     staffId : {NoId} \cup StaffIds, patientId : {NoId} \cup PatientIds]

\* the clients whose requests may be in flight together
Clients == {1, 2}

\* the client of a specification in which requests follow one another
OneClient == CHOOSE c \in Clients : \A d \in Clients : c <= d

\* the requests raced against each other: a booking with the default status,
\* a reschedule to another staff member
RaceBookInputs == {d \in BookInputs : d.status = NoStatus}

RacePutInputs == {[NoBody EXCEPT !.staffId = s] : s \in StaffIds}

\* ------------------------------------------------------------- the routes

\* stamp is the new Date() of updateAppointment (823), once the handler has
\* called it
Idle ==
    [pc |-> "idle", id |-> NoId, body |-> NoBody, existing |-> {},
     stamp |-> NoTime]

\* a doctor's staff request that is not suspended
StaffIdle == [pc |-> "idle", id |-> NoId, userId |-> NoId, isActive |-> FALSE]

\* what the handler answers: the status code with the message of a 409
\* (routes.ts 325, 354), and for a booking the staff member and the patient
\* the request named
Response(op, code, staffId, patientId) ==
    [op |-> op, code |-> code, staffId |-> staffId, patientId |-> patientId,
     message |-> IF code = 409
                 THEN "Appointment conflicts with existing booking" ELSE ""]

\* req.user of the staff routes: two doctors, an administrator and a user
\* of another role
Callers ==
    {[id |-> 1, role |-> "doctor"], [id |-> 2, role |-> "doctor"],
     [id |-> 3, role |-> "admin"], [id |-> 4, role |-> "staff"]}

Doctors == {c \in Callers : c.role = "doctor"}

Init ==
    /\ appointments = {}
    /\ nextId = 1
    /\ inflight = [c \in Clients |-> Idle]
    /\ resp = Response("none", 0, NoId, NoId)
    /\ isActive = [s \in StaffIds |-> TRUE]
    /\ now = 0
    /\ userId = [s \in StaffIds |-> s]
    /\ staffInflight = [d \in {c.id : c \in Doctors} |-> StaffIdle]

\* a conflict check that any stored appointment fails: a lock on the table
bookConflictWithAnyRow(store, data) == store # {}

\* routes.ts 317-322: the conflict check of POST
bookConflict(store, data) ==
    checkAppointmentConflicts(store, data.staffId, data.patientId,
                              data.startTime, data.endTime, NoId)

\* a condition that sends a status update through the conflict check too
changesScheduleOrStatus(body) ==
    \/ body.status # NoStatus
    \/ truthyTime(body.startTime)
    \/ truthyTime(body.endTime)
    \/ truthyId(body.staffId)
    \/ truthyId(body.patientId)

\* routes.ts 342: the body changes a scheduling field
changesSchedule(body) ==
    \/ truthyTime(body.startTime)
    \/ truthyTime(body.endTime)
    \/ truthyId(body.staffId)
    \/ truthyId(body.patientId)

\* routes.ts 345-351: the conflict check of PUT, `body.x || existing.x`: the
\* truthy values of the body over those of the row read before it
putConflictWith(store, existing, id, body) ==
    checkAppointmentConflicts(
        store,
        IF truthyId(body.staffId) THEN body.staffId ELSE existing.staffId,
        IF truthyId(body.patientId) THEN body.patientId
                                    ELSE existing.patientId,
        IF truthyTime(body.startTime) THEN body.startTime
                                      ELSE existing.startTime,
        IF truthyTime(body.endTime) THEN body.endTime ELSE existing.endTime,
        id)

\* GET /api/appointments: the bodies the handler may answer with, always
\* with status 200; it reads the store and changes nothing
GetAppointments(store, query) ==
    IF query.startDate # NoTime /\ query.endDate # NoTime
    THEN getAppointmentsByDateRange(store, query.startDate, query.endDate)
    ELSE IF query.staffId # NoId
    THEN getAppointmentsByStaff(store, query.staffId)
    ELSE IF query.patientId # NoId
    THEN getAppointmentsByPatient(store, query.patientId)
    ELSE getAllAppointments(store)

\* ---- the appointment handlers, step by step: each await of a handler ends
\* a step, and the steps of two clients' requests may interleave

creating == {c \in Clients : inflight[c].pc = "create"}

\* POST, up to the answer of checkAppointmentConflicts (await at 317)
BookCheck(c, data) ==
    /\ inflight[c].pc = "idle"
    /\ nextId + Cardinality(creating) <= MaxAppointments
    /\ IF bookConflict(appointments, data)
       THEN /\ resp' = Response("book", 409, data.staffId, data.patientId)
            /\ UNCHANGED inflight
       ELSE /\ inflight' = [inflight EXCEPT ![c] =
                               [pc |-> "create", id |-> NoId, body |-> data,
                                existing |-> {}, stamp |-> NoTime]]
            /\ UNCHANGED resp
    /\ UNCHANGED <<appointments, nextId, isActive, now, userId, staffInflight>>

\* POST, createAppointment (await at 328) and the answer: the insert draws
\* the next value of the serial, then fails on a foreign key or on the
\* primary key of a row a PUT has given that id (400, from the catch block),
\* or stores the row (201)
BookCreate(c) ==
    /\ inflight[c].pc = "create"
    /\ nextId' = nextId + 1
    /\ IF /\ foreignKeysHold(inflight[c].body)
          /\ getAppointment(appointments, nextId) = {}
       THEN /\ appointments' =
                   createAppointment(appointments, nextId, inflight[c].body)
            /\ resp' = Response("book", 201, inflight[c].body.staffId,
                                inflight[c].body.patientId)
       ELSE /\ resp' = Response("book", 400, inflight[c].body.staffId,
                                inflight[c].body.patientId)
            /\ UNCHANGED appointments
    /\ inflight' = [inflight EXCEPT ![c] = Idle]
    /\ UNCHANGED <<isActive, now, userId, staffInflight>>

\* PUT with a scheduling field, up to the answer of getAppointment (await
\* at 343): the handler calls the conflict check when the row exists, and
\* updateAppointment, which reads the clock, when it does not
PutGet(c, id, body) ==
    /\ inflight[c].pc = "idle"
    /\ changesSchedule(body)
    /\ inflight' = [inflight EXCEPT ![c] =
                       [pc |-> IF getAppointment(appointments, id) = {}
                               THEN "update" ELSE "check",
                        id |-> id, body |-> body,
                        existing |-> getAppointment(appointments, id),
                        stamp |-> IF getAppointment(appointments, id) = {}
                                  THEN now ELSE NoTime]]
    /\ UNCHANGED <<appointments, nextId, resp, isActive, now, userId,
                   staffInflight>>

\* a conflict check of PUT that writes the body before it answers 409
PutCheckWritesFirst(c) ==
    /\ inflight[c].pc = "check"
    /\ IF \E existing \in inflight[c].existing :
              putConflictWith(appointments, existing, inflight[c].id,
                              inflight[c].body)
       THEN /\ resp' = Response("put", 409, NoId, NoId)
            /\ inflight' = [inflight EXCEPT ![c] = Idle]
            /\ appointments' = updateAppointment(appointments, inflight[c].id,
                                                 inflight[c].body, now)
       ELSE /\ inflight' = [inflight EXCEPT ![c].pc = "update",
                                            ![c].stamp = now]
            /\ UNCHANGED <<resp, appointments>>
    /\ UNCHANGED <<nextId, isActive, now, userId, staffInflight>>

\* PUT, up to the answer of checkAppointmentConflicts (await at 345): the
\* 409, or the call of updateAppointment, which reads the clock
PutCheck(c) ==
    /\ inflight[c].pc = "check"
    /\ IF \E existing \in inflight[c].existing :
              putConflictWith(appointments, existing, inflight[c].id,
                              inflight[c].body)
       THEN /\ resp' = Response("put", 409, NoId, NoId)
            /\ inflight' = [inflight EXCEPT ![c] = Idle]
       ELSE /\ inflight' = [inflight EXCEPT ![c].pc = "update",
                                            ![c].stamp = now]
            /\ UNCHANGED resp
    /\ UNCHANGED <<appointments, nextId, isActive, now, userId, staffInflight>>

\* PUT, updateAppointment (await at 359): the statement cannot be built or
\* fails (400, from the catch block, nothing written), or it runs and the
\* answer is 200
PutUpdate(c) ==
    /\ inflight[c].pc = "update"
    /\ IF \/ encoderThrows(inflight[c].body)
          \/ constraintFails(appointments, inflight[c].id, inflight[c].body)
       THEN /\ resp' = Response("put", 400, NoId, NoId)
            /\ UNCHANGED appointments
       ELSE /\ appointments' =
                   updateAppointment(appointments, inflight[c].id,
                                     inflight[c].body, inflight[c].stamp)
            /\ resp' = Response("put", 200, NoId, NoId)
    /\ inflight' = [inflight EXCEPT ![c] = Idle]
    /\ UNCHANGED <<nextId, isActive, now, userId, staffInflight>>

\* PUT without a scheduling field: the condition at 342 is false and the
\* handler calls updateAppointment, which reads the clock; its statement is
\* the one await of the request (359)
PutUnchecked(c, id, body) ==
    /\ inflight[c].pc = "idle"
    /\ ~changesSchedule(body)
    /\ inflight' = [inflight EXCEPT ![c] =
                       [pc |-> "update", id |-> id, body |-> body,
                        existing |-> {}, stamp |-> now]]
    /\ UNCHANGED <<appointments, nextId, resp, isActive, now, userId,
                   staffInflight>>

\* DELETE /api/appointments/:id: deleteAppointment is its one await (370)
Delete(id) ==
    /\ appointments' = deleteAppointment(appointments, id)
    /\ resp' = Response("delete", 204, NoId, NoId)
    /\ UNCHANGED <<nextId, inflight, isActive, now, userId, staffInflight>>

\* no request is suspended at an await
Quiet == \A c \in Clients : inflight[c].pc = "idle"

\* ---- requests that follow one another: one client, whose next request
\* starts when the one before it has been answered

Next ==
    \/ \E data \in BookInputs : BookCheck(OneClient, data)
    \/ BookCreate(OneClient)
    \/ \E id \in AppointmentIds, body \in DeskPutInputs :
          PutGet(OneClient, id, body)
    \/ PutCheck(OneClient)
    \/ PutUpdate(OneClient)
    \/ \E id \in AppointmentIds, body \in DeskPutInputs :
          PutUnchecked(OneClient, id, body)
    \/ \E id \in AppointmentIds : Quiet /\ Delete(id)

Spec == Init /\ [][Next]_vars

\* ---- the same, with the requests of a day at the desk: bookings that
\* leave the status to its default, status updates that cancel an
\* appointment or restore it, reschedules to another staff member

SerialPutInputs ==
    {[NoBody EXCEPT !.status = st] : st \in {"scheduled", "cancelled"}}
        \cup {[NoBody EXCEPT !.staffId = s] : s \in StaffIds}

NextSerial ==
    \/ \E data \in RaceBookInputs : BookCheck(OneClient, data)
    \/ BookCreate(OneClient)
    \/ \E id \in AppointmentIds, body \in SerialPutInputs :
          PutGet(OneClient, id, body)
    \/ PutCheck(OneClient)
    \/ PutUpdate(OneClient)
    \/ \E id \in AppointmentIds, body \in SerialPutInputs :
          PutUnchecked(OneClient, id, body)
    \/ \E id \in AppointmentIds : Quiet /\ Delete(id)

SpecSerial == Init /\ [][NextSerial]_vars

\* ---- the staff routes

\* requireRole(['admin', 'doctor'])
requireRole(caller) == caller.role \in {"admin", "doctor"}

\* bodies of POST and PUT /api/staff: the owner named, if any (a user who
\* may hold staff records), and isActive
StaffInputs ==
    [userId : {NoId} \cup {c.id : c \in Doctors},
     isActive : BOOLEAN]

\* the ids a staff request may name
StaffRowIds == 1..MaxStaff

\* routes.ts 165-166, 185-186: the record exists and the caller owns it
ownsStaff(caller, id) == id \in DOMAIN userId /\ userId[id] = caller.id

\* POST /api/staff: createStaff is its one await
CreateStaff(caller, body) ==
    /\ Cardinality(DOMAIN userId) < MaxStaff
    /\ IF requireRole(caller)
       THEN /\ userId' = createStaff(userId, Cardinality(DOMAIN userId) + 1,
                                     IF caller.role = "doctor"
                                     THEN caller.id ELSE body.userId)
            /\ isActive' = createStaff(isActive, Cardinality(DOMAIN userId) + 1,
                                       body.isActive)
            /\ resp' = Response("createStaff", 201, NoId, NoId)
       ELSE /\ resp' = Response("createStaff", 403, NoId, NoId)
            /\ UNCHANGED <<userId, isActive>>
    /\ UNCHANGED <<appointments, nextId, inflight, now, staffInflight>>

\* PUT /api/staff/:id up to its first await.  For a doctor that is getStaff
\* (164): the request is refused, or suspended before the write; for an
\* administrator it is updateStaff (170), and the 200 follows
UpdateStaff(caller, id, body) ==
    /\ IF ~requireRole(caller)
       THEN /\ resp' = Response("updateStaff", 403, NoId, NoId)
            /\ UNCHANGED <<userId, isActive, staffInflight>>
       ELSE IF caller.role = "doctor"
       THEN /\ staffInflight[caller.id].pc = "idle"
            /\ IF ownsStaff(caller, id)
               THEN /\ staffInflight' =
                          [staffInflight EXCEPT ![caller.id] =
                              [pc |-> "update", id |-> id,
                               userId |-> body.userId,
                               isActive |-> body.isActive]]
                    /\ UNCHANGED resp
               ELSE /\ resp' = Response("updateStaff", 403, NoId, NoId)
                    /\ UNCHANGED staffInflight
            /\ UNCHANGED <<userId, isActive>>
       ELSE /\ userId' = IF body.userId # NoId
                         THEN updateStaff(userId, id, body.userId) ELSE userId
            /\ isActive' = updateStaff(isActive, id, body.isActive)
            /\ resp' = Response("updateStaff", 200, NoId, NoId)
            /\ UNCHANGED staffInflight
    /\ UNCHANGED <<appointments, nextId, inflight, now>>

\* PUT /api/staff/:id of a doctor, updateStaff (170) and the 200
UpdateStaffWrite(caller) ==
    /\ caller.role = "doctor"
    /\ staffInflight[caller.id].pc = "update"
    /\ userId' = IF staffInflight[caller.id].userId # NoId
                 THEN updateStaff(userId, staffInflight[caller.id].id,
                                  staffInflight[caller.id].userId)
                 ELSE userId
    /\ isActive' = updateStaff(isActive, staffInflight[caller.id].id,
                               staffInflight[caller.id].isActive)
    /\ resp' = Response("updateStaff", 200, NoId, NoId)
    /\ staffInflight' = [staffInflight EXCEPT ![caller.id] = StaffIdle]
    /\ UNCHANGED <<appointments, nextId, inflight, now>>

\* DELETE /api/staff/:id up to its first await: getStaff (184) for a doctor,
\* deleteStaff (190) and the 204 for an administrator
DeleteStaff(caller, id) ==
    /\ IF ~requireRole(caller)
       THEN /\ resp' = Response("deleteStaff", 403, NoId, NoId)
            /\ UNCHANGED <<isActive, staffInflight>>
       ELSE IF caller.role = "doctor"
       THEN /\ staffInflight[caller.id].pc = "idle"
            /\ IF ownsStaff(caller, id)
               THEN /\ staffInflight' =
                          [staffInflight EXCEPT ![caller.id] =
                              [StaffIdle EXCEPT !.pc = "delete", !.id = id]]
                    /\ UNCHANGED resp
               ELSE /\ resp' = Response("deleteStaff", 403, NoId, NoId)
                    /\ UNCHANGED staffInflight
            /\ UNCHANGED isActive
       ELSE /\ isActive' = deleteStaff(isActive, id)
            /\ resp' = Response("deleteStaff", 204, NoId, NoId)
            /\ UNCHANGED staffInflight
    /\ UNCHANGED <<appointments, nextId, inflight, now, userId>>

\* DELETE /api/staff/:id of a doctor, deleteStaff (190) and the 204
DeleteStaffWrite(caller) ==
    /\ caller.role = "doctor"
    /\ staffInflight[caller.id].pc = "delete"
    /\ isActive' = deleteStaff(isActive, staffInflight[caller.id].id)
    /\ resp' = Response("deleteStaff", 204, NoId, NoId)
    /\ staffInflight' = [staffInflight EXCEPT ![caller.id] = StaffIdle]
    /\ UNCHANGED <<appointments, nextId, inflight, now, userId>>

NextStaff ==
    \/ \E caller \in Callers, body \in StaffInputs : CreateStaff(caller, body)
    \/ \E caller \in Callers, id \in StaffRowIds, body \in StaffInputs :
          UpdateStaff(caller, id, body)
    \/ \E caller \in Callers : UpdateStaffWrite(caller)
    \/ \E caller \in Callers, id \in StaffRowIds : DeleteStaff(caller, id)
    \/ \E caller \in Callers : DeleteStaffWrite(caller)

SpecStaff == Init /\ [][NextStaff]_vars

\* ---- bookings that name any staff id, among staff members being removed

EntityBookInputs ==
    RaceBookInputs
        \cup {[d EXCEPT !.staffId = UnknownStaffId] : d \in RaceBookInputs}

NextEntities ==
    \/ \E c \in Clients, data \in EntityBookInputs : BookCheck(c, data)
    \/ \E c \in Clients : BookCreate(c)
    \/ \E caller \in Callers, id \in StaffIds : DeleteStaff(caller, id)
    \/ \E caller \in Callers : DeleteStaffWrite(caller)

SpecEntities == Init /\ [][NextEntities]_vars

\* ---- bookings, reschedules and status updates while the clock advances

\* the clock moves on by one instant
Tick ==
    /\ now < MaxTime
    /\ now' = now + 1
    /\ UNCHANGED <<appointments, nextId, inflight, resp, isActive, userId,
                   staffInflight>>

\* the bookings of one patient for the first slot of the day, which last as
\* long as the service and leave the status to its default
ClockBookInputs ==
    {d \in RaceBookInputs :
        /\ d.startTime = 0
        /\ d.endTime = d.startTime + ServiceDuration[d.serviceId]
        /\ \A p \in PatientIds : d.patientId <= p}

\* a PUT body that names another staff member, or that cancels
ClockPutInputs ==
    {[NoBody EXCEPT !.staffId = s] : s \in StaffIds}
        \cup {[NoBody EXCEPT !.status = "cancelled"]}

NextClock ==
    \/ Tick
    \/ \E c \in Clients, data \in ClockBookInputs : BookCheck(c, data)
    \/ \E c \in Clients : BookCreate(c)
    \/ \E c \in Clients, id \in AppointmentIds, body \in ClockPutInputs :
          PutGet(c, id, body)
    \/ \E c \in Clients : PutCheck(c)
    \/ \E c \in Clients : PutUpdate(c)
    \/ \E c \in Clients, id \in AppointmentIds, body \in ClockPutInputs :
          PutUnchecked(c, id, body)

SpecClock == Init /\ [][NextClock]_vars

\* ---- the requests of two clients, interleaved

NextRace ==
    \/ \E c \in Clients, data \in RaceBookInputs : BookCheck(c, data)
    \/ \E c \in Clients : BookCreate(c)
    \/ \E c \in Clients, id \in AppointmentIds, body \in RacePutInputs :
          PutGet(c, id, body)
    \/ \E c \in Clients : PutCheck(c)
    \/ \E c \in Clients : PutUpdate(c)
    \/ \E id \in AppointmentIds : Delete(id)

SpecRace == Init /\ [][NextRace]_vars

\* ---- the handlers over a storage layer that may throw

\* the route a suspended request belongs to
opOf(request) == IF request.pc = "create" THEN "book" ELSE "put"

\* a catch block that logs the error and sends no answer
StorageThrowsUnanswered(c) ==
    /\ inflight[c].pc \in {"create", "check", "update"}
    /\ inflight' = [inflight EXCEPT ![c].pc = "failed"]
    /\ UNCHANGED <<appointments, nextId, resp, isActive, now, userId,
                   staffInflight>>

\* the storage call a suspended request awaits throws: the catch block of its
\* handler answers 400 (routes.ts 330-333, 361-364) and nothing is written
StorageThrows(c) ==
    /\ inflight[c].pc \in {"create", "check", "update"}
    /\ resp' = Response(opOf(inflight[c]), 400, NoId, NoId)
    /\ inflight' = [inflight EXCEPT ![c] = Idle]
    /\ UNCHANGED <<appointments, nextId, isActive, now, userId, staffInflight>>

\* the first storage call of a handler throws (checkAppointmentConflicts at
\* 317, getAppointment at 343, deleteAppointment at 370), or
\* insertAppointmentSchema.parse does (314): the catch block answers 400
\* (330-333, 361-364, 372-375) and nothing is written
FirstCallThrows(c, op) ==
    /\ inflight[c].pc = "idle"
    /\ resp' = Response(op, 400, NoId, NoId)
    /\ UNCHANGED <<appointments, nextId, inflight, isActive, now, userId,
                   staffInflight>>

\* what a suspended request does next: its storage call returns, or throws
Continue(c) ==
    BookCreate(c) \/ PutCheck(c) \/ PutUpdate(c) \/ StorageThrows(c)

\* the bookings of the first slot of the day, which last as long as the
\* service and leave the status to its default
LiveBookInputs ==
    {d \in RaceBookInputs :
        /\ d.startTime = 0
        /\ d.endTime = d.startTime + ServiceDuration[d.serviceId]}

NextLive ==
    \/ \E c \in Clients, data \in LiveBookInputs : BookCheck(c, data)
    \/ \E c \in Clients : BookCreate(c)
    \/ \E c \in Clients, id \in AppointmentIds, body \in RacePutInputs :
          PutGet(c, id, body)
    \/ \E c \in Clients : PutCheck(c)
    \/ \E c \in Clients : PutUpdate(c)
    \/ \E c \in Clients : StorageThrows(c)
    \/ \E c \in Clients, op \in {"book", "put", "delete"} :
          FirstCallThrows(c, op)
    \/ \E id \in AppointmentIds : Delete(id)

\* every awaited storage call settles: a suspended request is resumed
SpecLive ==
    Init /\ [][NextLive]_vars /\ \A c \in Clients : WF_vars(Continue(c))

\* ---- the bookings of two clients alone, step by step
NextBooks ==
    \/ \E c \in Clients, data \in RaceBookInputs : BookCheck(c, data)
    \/ \E c \in Clients : BookCreate(c)

SpecBooks == Init /\ [][NextBooks]_vars

\* ---- reschedules of booked slots: bookings of a slot as long as the
\* service, and PUT bodies that carry any of the scheduling fields
SlotBookInputs ==
    {d \in RaceBookInputs :
        d.endTime = d.startTime + ServiceDuration[d.serviceId]}

NextReschedule ==
    \/ \E data \in SlotBookInputs : BookCheck(OneClient, data)
    \/ BookCreate(OneClient)
    \/ \E id \in AppointmentIds, body \in RescheduleInputs :
          PutGet(OneClient, id, body)
    \/ PutCheck(OneClient)
    \/ PutUpdate(OneClient)
    \/ \E id \in AppointmentIds, body \in RescheduleInputs :
          PutUnchecked(OneClient, id, body)

SpecReschedule == Init /\ [][NextReschedule]_vars

\* ---- updates while the clock advances: a PUT body that carries one
\* column (a staff member, a patient, a service, a status, a start, a
\* createdAt or an id, each with a null or a value, an id possibly one
\* that names no row), an id with a staff member, a status with a null
\* createdAt, or none of these
UpdateInputs ==
    {[NoBody EXCEPT !.staffId = s] :
        s \in {NullId, UnknownStaffId} \cup StaffIds}
        \cup {[NoBody EXCEPT !.patientId = p] : p \in PatientIds}
        \cup {[NoBody EXCEPT !.serviceId = v] :
                 v \in {NullId, UnknownServiceId} \cup ServiceIds}
        \cup {[NoBody EXCEPT !.status = st] :
                 st \in {NullStatus} \cup Statuses}
        \cup {[NoBody EXCEPT !.startTime = t] :
                 t \in {NullTime, FalsyTime} \cup Times}
        \cup {[NoBody EXCEPT !.createdAt = t] :
                 t \in {NullTime, FalsyTime} \cup Times}
        \cup {[NoBody EXCEPT !.status = "cancelled",
                             !.createdAt = NullTime]}
        \cup {[NoBody EXCEPT !.id = i] :
                 i \in {NullId, UnknownAppointmentId}}
        \cup IdInputs
        \cup {NoBody}

\* the ids the path of such a request names: those the serial hands out
\* and one beyond them
UpdateIds == AppointmentIds \cup {UnknownAppointmentId}

NextUpdates ==
    \/ Tick
    \/ \E data \in ClockBookInputs : BookCheck(OneClient, data)
    \/ BookCreate(OneClient)
    \/ \E id \in UpdateIds, body \in UpdateInputs :
          PutGet(OneClient, id, body)
    \/ PutCheck(OneClient)
    \/ PutUpdate(OneClient)
    \/ \E id \in UpdateIds, body \in UpdateInputs :
          PutUnchecked(OneClient, id, body)

SpecUpdates == Init /\ [][NextUpdates]_vars

\* ------------------------------------------------------------- properties

Scheduled(a) == a.status = "scheduled"

\* the half-open intervals [startTime, endTime) of two rows, or of a row and
\* a request, share an instant
Intersects(a, b) ==
    \E t \in Times : /\ a.startTime <= t /\ t < a.endTime
                     /\ b.startTime <= t /\ t < b.endTime

NoStaffOverlap ==
    \A a, b \in appointments :
        (a.id # b.id /\ Scheduled(a) /\ Scheduled(b) /\ a.staffId = b.staffId)
            => ~Intersects(a, b)

NoPatientOverlap ==
    \A a, b \in appointments :
        (a.id # b.id /\ Scheduled(a) /\ Scheduled(b) /\ a.patientId = b.patientId)
            => ~Intersects(a, b)

\* the last request was a booking and it was stored, as row n
BookedAs(n) ==
    /\ resp.op = "book" /\ resp.code = 201
    /\ n.id = nextId - 1
    /\ n.staffId = resp.staffId /\ n.patientId = resp.patientId

\* a booking is answered 201 with its row stored, or else 409
BookingStoredOrRefused ==
    resp.op = "book" =>
        \/ resp.code = 201 /\ \E n \in appointments : BookedAs(n)
        \/ resp.code = 409

\* C1: with requests handled one after the other, no two scheduled
\* appointments of one staff member overlap; and a booking is answered 409
\* and not stored unless its interval overlaps no scheduled appointment of
\* its staff member.
C1_NoStaffDoubleBooking ==
    /\ NoStaffOverlap
    /\ BookingStoredOrRefused
    /\ \A n \in appointments :
          BookedAs(n) =>
              \A a \in appointments \ {n} :
                  (Scheduled(a) /\ a.staffId = n.staffId) => ~Intersects(a, n)

\* a booking was just answered 409 although the patient it named holds no
\* appointment: the staff member it named holds a scheduled appointment over
\* the whole time axis, which every interval overlaps
C1_Witness ==
    /\ resp.op = "book" /\ resp.code = 409
    /\ \A b \in appointments : b.patientId # resp.patientId
    /\ \E a \in appointments :
          /\ a.staffId = resp.staffId /\ Scheduled(a)
          /\ a.startTime = 0 /\ a.endTime = MaxTime

\* C2: with requests handled one after the other, no two scheduled
\* appointments of one patient overlap, whoever the staff members are; and a
\* booking is answered 409 and not stored unless its interval overlaps no
\* scheduled appointment its patient holds with another staff member.
C2_NoPatientDoubleBooking ==
    /\ NoPatientOverlap
    /\ BookingStoredOrRefused
    /\ \A n \in appointments :
          BookedAs(n) =>
              \A a \in appointments \ {n} :
                  (/\ Scheduled(a) /\ a.patientId = n.patientId
                   /\ a.staffId # n.staffId) => ~Intersects(a, n)

\* a booking was just answered 409 although the staff member it named holds
\* no appointment: its patient holds a scheduled appointment over the whole
\* time axis with another staff member
C2_Witness ==
    /\ resp.op = "book" /\ resp.code = 409
    /\ \A b \in appointments : b.staffId # resp.staffId
    /\ \E a \in appointments :
          /\ a.patientId = resp.patientId /\ Scheduled(a)
          /\ a.startTime = 0 /\ a.endTime = MaxTime

Rejected409 == resp'.code = 409 /\ appointments' = appointments

\* C3: the conflict check and the write of one mutation are one atomic step:
\* however the steps of two clients' requests interleave, the store never
\* holds two overlapping scheduled appointments of one staff member or of one
\* patient.
C3_CheckAndWriteAtomic == NoStaffOverlap /\ NoPatientOverlap

\* request d for another patient touches, at one endpoint, the scheduled
\* appointment a of its staff member, and the store holds nothing else for
\* that staff member or for d's patient
TouchesOnly(a, d) ==
    /\ Scheduled(a) /\ a.staffId = d.staffId /\ a.patientId # d.patientId
    /\ a.startTime < a.endTime
    /\ d.startTime = a.endTime \/ d.endTime = a.startTime
    /\ \A b \in appointments \ {a} :
          b.staffId # d.staffId /\ b.patientId # d.patientId

\* C4: a booking whose interval only touches, at an endpoint, the one
\* scheduled appointment of its staff member passes the conflict check.
C4_BackToBackAccepted ==
    [][\A c \in Clients, d \in BookInputs :
          (BookCheck(c, d) /\ \E a \in appointments : TouchesOnly(a, d))
              => inflight'[c].pc = "create"]_vars

\* body moves the scheduled row x in time only, to an interval that no other
\* appointment of x's staff member or patient overlaps
MovesFreely(x, body) ==
    /\ Scheduled(x)
    /\ fieldsOf(body) # {} /\ fieldsOf(body) \subseteq {"startTime", "endTime"}
    /\ setFields(x, body, now).startTime < setFields(x, body, now).endTime
    /\ \A b \in appointments \ {x} :
          (b.staffId = x.staffId \/ b.patientId = x.patientId)
              => ~Intersects(b, setFields(x, body, now))

\* C5: a reschedule of a scheduled appointment to an interval that no other
\* appointment of its staff member or patient overlaps passes the conflict
\* check, also when the new interval overlaps the appointment's own current
\* one.
C5_RescheduleSelfExclusion ==
    [][\A c \in Clients :
          (/\ PutCheck(c)
           /\ \E x \in getAppointment(appointments, inflight[c].id) :
                 MovesFreely(x, inflight[c].body))
              => inflight'[c].pc = "update"]_vars

Terminal == {"completed", "cancelled", "no_show"}

\* C6: once the status of an appointment is completed, cancelled or no_show,
\* every status change asked of it fails and its stored status never changes.
C6_TerminalStatusFinal ==
    [][/\ \A a \in appointments : \A b \in appointments' :
             (a.status \in Terminal /\ b.id = a.id) => b.status = a.status
       /\ \A c \in Clients :
             (/\ PutUpdate(c)
              /\ inflight[c].body \in StatusOnlyInputs
              /\ \E x \in getAppointment(appointments, inflight[c].id) :
                    x.status \in Terminal)
                 => resp'.code >= 400]_vars

\* C7: a reschedule of an appointment whose status is completed, cancelled or
\* no_show fails, and leaves its staff, patient, start and end as they were.
C7_TerminalNotRescheduled ==
    [][/\ \A a \in appointments : \A b \in appointments' :
             (a.status \in Terminal /\ b.id = a.id)
                 => /\ b.staffId = a.staffId /\ b.patientId = a.patientId
                    /\ b.startTime = a.startTime /\ b.endTime = a.endTime
       /\ \A c \in Clients :
             (/\ PutCheck(c)
              /\ \E x \in getAppointment(appointments, inflight[c].id) :
                    x.status \in Terminal)
                 => inflight'[c].pc = "idle" /\ resp'.code >= 400]_vars

\* among the rows of others, request d (a body, or a row as it would be
\* after a reschedule) overlaps an appointment of its staff member or patient
\* that is no longer scheduled, and no scheduled one
OnlyFreedSlots(others, d) ==
    /\ d.startTime < d.endTime
    /\ \E a \in others :
          /\ ~Scheduled(a) /\ Intersects(a, d)
          /\ a.staffId = d.staffId \/ a.patientId = d.patientId
    /\ \A b \in others :
          (Scheduled(b) /\ (b.staffId = d.staffId \/ b.patientId = d.patientId))
              => ~Intersects(b, d)

\* C8: only scheduled appointments block: a booking or a reschedule that
\* overlaps cancelled, completed or no_show appointments of its staff member
\* or patient, and no scheduled one, passes the conflict check.
C8_OnlyScheduledBlocks ==
    [][/\ \A c \in Clients, d \in BookInputs :
             (BookCheck(c, d) /\ OnlyFreedSlots(appointments, d))
                 => inflight'[c].pc = "create"
       /\ \A c \in Clients :
             (/\ PutCheck(c)
              /\ \E x \in getAppointment(appointments, inflight[c].id) :
                    OnlyFreedSlots(appointments \ {x},
                                   setFields(x, inflight[c].body, now)))
                 => inflight'[c].pc = "update"]_vars

\* the scheduled appointments that share staff, service and interval with d
CoOccupants(d) ==
    {a \in appointments :
        /\ Scheduled(a) /\ a.staffId = d.staffId /\ a.serviceId = d.serviceId
        /\ a.startTime = d.startTime /\ a.endTime = d.endTime}

\* apart from its co-occupants, who are other patients, the store holds
\* nothing for d's staff member or patient
GroupSession(d) ==
    /\ CoOccupants(d) # {}
    /\ \A a \in CoOccupants(d) : a.patientId # d.patientId
    /\ \A b \in appointments \ CoOccupants(d) :
          b.staffId # d.staffId /\ b.patientId # d.patientId

\* C9: a booking into a session of a group service passes the check while the
\* session holds fewer patients than the capacity of the service, and is
\* answered 409 once it is full.
C9_GroupCapacity ==
    [][\A c \in Clients, d \in BookInputs :
          (BookCheck(c, d) /\ GroupSession(d))
              => IF Cardinality(CoOccupants(d)) < ServiceCapacity[d.serviceId]
                 THEN inflight'[c].pc = "create"
                 ELSE Rejected409]_vars

\* a window of the staff member's template contains the interval of d
TemplateCovers(d) ==
    \E w \in StaffAvailability[d.staffId] :
        w[1] <= d.startTime /\ d.endTime <= w[2]

\* C10: a booking or a reschedule for a staff member whose template has no
\* window that contains the interval is rejected: the step that would store
\* or change the appointment answers with an error and writes nothing.
C10_AvailabilityGating ==
    [][\A c \in Clients :
          /\ (BookCreate(c) /\ ~TemplateCovers(inflight[c].body))
                => resp'.code >= 400 /\ appointments' = appointments
          /\ (/\ PutUpdate(c)
              /\ \E x \in getAppointment(appointments, inflight[c].id) :
                    ~TemplateCovers(setFields(x, inflight[c].body, now)))
                => resp'.code >= 400 /\ appointments' = appointments]_vars

\* an exclusion of d's staff member overlaps the interval of d
ExclusionOverlaps(d) ==
    \E x \in getStaffExclusions[d.staffId] :
        x[1] < d.endTime /\ d.startTime < x[2]

\* the store holds nothing for the staff member or the patient of d, apart
\* from the rows of own
NothingElseBooked(own, d) ==
    \A b \in appointments \ own :
        b.staffId # d.staffId /\ b.patientId # d.patientId

\* C11: a booking or a reschedule whose interval lies inside a template
\* window of its staff member and overlaps one of that staff member's
\* exclusions is rejected and stores or changes nothing; one that lies inside
\* a window, overlaps no exclusion and meets no other appointment of its
\* staff member or patient passes the conflict check.
C11_ExclusionOverridesTemplate ==
    [][\A c \in Clients :
          /\ (/\ BookCreate(c)
              /\ TemplateCovers(inflight[c].body)
              /\ ExclusionOverlaps(inflight[c].body))
                => resp'.code >= 400 /\ appointments' = appointments
          /\ \A d \in BookInputs :
                (/\ BookCheck(c, d)
                 /\ TemplateCovers(d) /\ ~ExclusionOverlaps(d)
                 /\ NothingElseBooked({}, d))
                   => inflight'[c].pc = "create"
          /\ (/\ PutUpdate(c)
              /\ \E x \in getAppointment(appointments, inflight[c].id) :
                    /\ TemplateCovers(setFields(x, inflight[c].body, now))
                    /\ ExclusionOverlaps(setFields(x, inflight[c].body, now)))
                => resp'.code >= 400 /\ appointments' = appointments]_vars

\* the conflict the detector is to report: a scheduled appointment other
\* than excludeId, of the staff member or of the patient, whose interval
\* overlaps [startTime, endTime)
ScheduledOverlap(store, staffId, patientId, startTime, endTime, excludeId) ==
    \E a \in store :
        /\ Scheduled(a)
        /\ a.id # excludeId
        /\ a.staffId = staffId \/ a.patientId = patientId
        /\ a.startTime < endTime /\ startTime < a.endTime

\* C12: on every store the routes can build, and for every staff member,
\* patient, interval and excluded id, checkAppointmentConflicts reports a
\* conflict exactly when the store holds a scheduled appointment, other than
\* the excluded one, of that staff member or patient that overlaps the
\* interval; on the empty store it reports none.
C12_ConflictIffScheduledOverlap ==
    \A staffId \in StaffIds, patientId \in PatientIds,
       startTime \in Times, endTime \in Times,
       excludeId \in {NoId} \cup AppointmentIds :
        startTime < endTime =>
            /\ checkAppointmentConflicts(appointments, staffId, patientId,
                                         startTime, endTime, excludeId)
                 <=> ScheduledOverlap(appointments, staffId, patientId,
                                      startTime, endTime, excludeId)
            /\ ~checkAppointmentConflicts({}, staffId, patientId,
                                          startTime, endTime, excludeId)

\* the invariants request d would violate on the present store
ViolatedBy(d) ==
    {r \in {"staff-double-booked", "patient-double-booked", "capacity-exceeded"} :
        \/ /\ r = "staff-double-booked"
           /\ \E a \in appointments :
                 Scheduled(a) /\ a.staffId = d.staffId /\ Intersects(a, d)
        \/ /\ r = "patient-double-booked"
           /\ \E a \in appointments :
                 /\ Scheduled(a) /\ a.patientId = d.patientId
                 /\ a.staffId # d.staffId /\ Intersects(a, d)
        \/ /\ r = "capacity-exceeded"
           /\ Cardinality(CoOccupants(d)) >= ServiceCapacity[d.serviceId]}

\* C13: the answer to a booking rejected for a scheduling conflict names an
\* invariant the booking would violate: staff-double-booked,
\* patient-double-booked or capacity-exceeded.
C13_ConflictCarriesReason ==
    [][\A c \in Clients, d \in BookInputs :
          (BookCheck(c, d) /\ resp'.code = 409 /\ ViolatedBy(d) # {})
              => resp'.message \in ViolatedBy(d)]_vars

\* C14: the appointment a booking has just stored has status scheduled,
\* whatever status the request body named.
C14_CreatedAsScheduled ==
    \A n \in appointments : BookedAs(n) => n.status = "scheduled"

\* C15: every stored appointment starts before it ends: no booking and no
\* reschedule stores an interval with startTime >= endTime.
C15_StartBeforeEnd ==
    \A a \in appointments : a.startTime < a.endTime

\* C16: the appointment a booking has just stored ends at its start plus the
\* duration of its service.
C16_EndFromServiceDuration ==
    \A n \in appointments :
        BookedAs(n) => n.endTime = n.startTime + ServiceDuration[n.serviceId]

\* C17: a PUT whose id matches no stored appointment is answered 404 and
\* leaves the stored appointments as they were.
C17_PutUnknownIdNotFound ==
    [][\A c \in Clients :
          (/\ PutUpdate(c)
           /\ getAppointment(appointments, inflight[c].id) = {})
              => resp'.code = 404 /\ appointments' = appointments]_vars

\* C18: a booking that names a staff member who does not exist, or who was
\* removed and is inactive, fails and stores no appointment.
C18_BookEntityNotFound ==
    [][\A c \in Clients :
          (/\ BookCreate(c)
           /\ \/ inflight[c].body.staffId \notin StaffIds
              \/ ~isActive[inflight[c].body.staffId])
              => resp'.code >= 400 /\ appointments' = appointments]_vars

\* the rows of a result
Range(q) == {q[i] : i \in DOMAIN q}

\* C19: for every range [A, B) the date range query returns exactly the
\* stored appointments, of any status, whose interval [startTime, endTime)
\* intersects the range.
C19_RangeQueryIntersects ==
    \A A \in Times, B \in Times :
        A < B =>
            \A q \in getAppointmentsByDateRange(appointments, A, B) :
                Range(q) = {a \in appointments :
                               a.startTime < B /\ A < a.endTime}

\* C20: every answer of GET /api/appointments, whatever parameters the query
\* carries, is in ascending order of startTime; and the query always has an
\* answer, the empty sequence when no appointment matches.
C20_QueryAscending ==
    \A query \in Queries :
        /\ GetAppointments(appointments, query) # {}
        /\ \A q \in GetAppointments(appointments, query) :
              \A i, j \in DOMAIN q : i < j => q[i].startTime <= q[j].startTime

\* C21: every answer of GET /api/appointments holds only appointments that
\* pass every filter the query carries: the staff member, the patient, the
\* start bound (the appointment starts at or after it, or at least ends after
\* it) and the end bound (the appointment starts no later), also when only
\* one of the two bounds is supplied.
C21_FiltersConjoined ==
    \A query \in Queries :
        \A q \in GetAppointments(appointments, query) :
            \A a \in Range(q) :
                /\ query.staffId # NoId => a.staffId = query.staffId
                /\ query.patientId # NoId => a.patientId = query.patientId
                /\ query.startDate # NoTime =>
                      a.startTime >= query.startDate \/ a.endTime > query.startDate
                /\ query.endDate # NoTime => a.startTime <= query.endDate

\* C22: however the steps of two clients' requests interleave, a booking is
\* refused only when the store holds an appointment of its staff member or of
\* its patient, so a concurrent booking for another staff member and another
\* patient never makes it fail; and a booking answered 201 is stored.
C22_DisjointBooksIndependent ==
    /\ (resp.op = "book" /\ resp.code = 409)
          => \E a \in appointments :
                a.staffId = resp.staffId \/ a.patientId = resp.patientId
    /\ (resp.op = "book" /\ resp.code = 201)
          => \E n \in appointments : BookedAs(n)

\* one client's booking has passed its check and waits for its insert, while
\* the booking of the other client, for another staff member and another
\* patient at an overlapping time, has just been stored
C22_Witness ==
    \E c \in Clients : \E n \in appointments :
        /\ inflight[c].pc = "create"
        /\ BookedAs(n)
        /\ n.staffId # inflight[c].body.staffId
        /\ n.patientId # inflight[c].body.patientId
        /\ Intersects(n, inflight[c].body)

\* what checkAppointmentConflicts reports for row x with every scheduling
\* field the body supplies, null included, in place of the stored one, and
\* the id excluded; a comparison with a null instant is not true
checkOnSupplied(store, x, id, body) ==
    IF NullTime \in {setFields(x, body, NoTime).startTime,
                     setFields(x, body, NoTime).endTime}
    THEN \E a \in store :
             staffMatches(a, setFields(x, body, NoTime).staffId)
    ELSE checkAppointmentConflicts(store,
                                   setFields(x, body, NoTime).staffId,
                                   setFields(x, body, NoTime).patientId,
                                   setFields(x, body, NoTime).startTime,
                                   setFields(x, body, NoTime).endTime,
                                   id)

\* C23: a PUT on a stored appointment x whose body supplies any of staffId,
\* patientId, startTime and endTime is refused with 409 exactly when the
\* conflict check reports a conflict for the tuple that takes each supplied
\* field from the body and each omitted field from x, with the id of x
\* excluded.
C23_RescheduleChecksMerged ==
    /\ [](\A c \in Clients : \A x \in getAppointment(appointments,
                                                       inflight[c].id) :
             (inflight[c].pc = "update" /\ fieldsOf(inflight[c].body) # {})
                 => ~checkOnSupplied(appointments, x, inflight[c].id,
                                     inflight[c].body))
    /\ [][\A c \in Clients :
             PutCheck(c) =>
                 \A x \in getAppointment(appointments, inflight[c].id) :
                     (inflight'[c].pc = "idle" /\ resp'.code = 409)
                         <=> checkOnSupplied(appointments, x, inflight[c].id,
                                             inflight[c].body)]_vars

\* the queries that take each branch of GET /api/appointments: a date range,
\* a staff member, a patient, or no parameter
NoQuery ==
    [startDate |-> NoTime, endDate |-> NoTime, staffId |-> NoId,
     patientId |-> NoId]

BranchQueries ==
    {[NoQuery EXCEPT !.startDate = A, !.endDate = B] : A \in Times, B \in Times}
        \cup {[NoQuery EXCEPT !.staffId = x] : x \in StaffIds}
        \cup {[NoQuery EXCEPT !.patientId = x] : x \in PatientIds}
        \cup {NoQuery}

\* C24: DELETE removes the appointment with that id whatever its status and
\* is answered 204; every other appointment stays as it was; afterwards no
\* query returns an appointment with that id, and a booking is in conflict
\* only with appointments that remain.
C24_DeleteHardRemoves ==
    [][\A id \in AppointmentIds :
          Delete(id) =>
              /\ resp'.code = 204
              /\ \A a \in appointments' : a.id # id
              /\ \A a \in appointments : a.id # id => a \in appointments'
              /\ appointments' \subseteq appointments
              /\ \A query \in BranchQueries :
                    \A q \in GetAppointments(appointments', query) :
                        \A a \in Range(q) : a.id # id
              /\ \A staffId \in StaffIds, patientId \in PatientIds,
                    startTime \in Times, endTime \in Times :
                    checkAppointmentConflicts(appointments', staffId, patientId,
                                              startTime, endTime, NoId)
                        => \E a \in appointments :
                              /\ a.id # id
                              /\ conflictRow(a, staffId, patientId,
                                             startTime, endTime, NoId)]_vars

\* a DELETE has just been answered and an appointment that was created is
\* no longer stored, while another one is
C24_Witness ==
    /\ resp.op = "delete"
    /\ appointments # {}
    /\ Cardinality(appointments) < nextId - 1

\* C28: a PUT whose body carries none of startTime, endTime, staffId and
\* patientId never reaches the conflict check, and no row was read for it;
\* it is answered 200, never 409, and leaves the staff member, patient,
\* start and end of every appointment as they were.
C28_StatusOnlyPutUnchecked ==
    /\ [](\A c \in Clients :
             /\ inflight[c].pc = "check" => fieldsOf(inflight[c].body) # {}
             /\ (inflight[c].pc = "update" /\ fieldsOf(inflight[c].body) = {})
                   => inflight[c].existing = {})
    /\ [][\A c \in Clients :
             (PutUpdate(c) /\ fieldsOf(inflight[c].body) = {}) =>
                 /\ resp'.code = 200
                 /\ \A a \in appointments : \E b \in appointments' :
                       /\ b.id = a.id
                       /\ b.staffId = a.staffId /\ b.patientId = a.patientId
                       /\ b.startTime = a.startTime /\ b.endTime = a.endTime
                 /\ Cardinality(appointments') = Cardinality(appointments)]_vars

\* a status-only PUT has just been answered 200 and an appointment is stored
\* as cancelled, a status only such a PUT writes
C28_Witness ==
    /\ resp.op = "put" /\ resp.code = 200
    /\ \E a \in appointments : a.status = "cancelled"

\* C25: a booking whose startTime is not later than the clock at the moment
\* of the call is rejected and stores nothing.
C25_PastBookingRejected ==
    [][\A c \in Clients, d \in ClockBookInputs :
          (BookCheck(c, d) /\ d.startTime <= now)
              => /\ resp'.code >= 400
                 /\ inflight'[c].pc = "idle"
                 /\ appointments' = appointments]_vars

\* C26: a step after which the last answer is the 409 of a booking or of a
\* PUT inserts no row and leaves every stored appointment as it was,
\* updatedAt included; a PUT that ends at its conflict check is answered 409
\* and has written nothing, and with that the request is over.
C26_RejectionChangesNothing ==
    [][/\ (resp'.op \in {"book", "put"} /\ resp'.code = 409)
             => appointments' = appointments /\ nextId' = nextId
       /\ \A c \in Clients :
             (inflight[c].pc = "check" /\ inflight'[c].pc = "idle")
                 => /\ resp'.code = 409
                    /\ appointments' = appointments /\ nextId' = nextId]_vars

\* a PUT has just been answered 409 while the clock is past the updatedAt of
\* every stored appointment: the refusal has refreshed none
C26_Witness ==
    /\ resp.op = "put" /\ resp.code = 409
    /\ appointments # {}
    /\ \A a \in appointments : a.updatedAt < now

\* the step rewrites row x in place with the fields the body supplies
UpdatedInPlace(x, body, stamp) ==
    /\ Cardinality(appointments') = Cardinality(appointments)
    /\ \E y \in appointments' :
          /\ y.id = x.id
          /\ y.createdAt = x.createdAt
          /\ y.updatedAt = stamp
          /\ y.staffId = IF body.staffId # NoId THEN body.staffId
                                                ELSE x.staffId
          /\ y.patientId = IF body.patientId # NoId THEN body.patientId
                                                    ELSE x.patientId
          /\ y.serviceId = IF body.serviceId # NoId THEN body.serviceId
                                                    ELSE x.serviceId
          /\ y.startTime = IF body.startTime # NoTime THEN body.startTime
                                                      ELSE x.startTime
          /\ y.endTime = IF body.endTime # NoTime THEN body.endTime
                                                  ELSE x.endTime
          /\ y.status = IF body.status # NoStatus THEN body.status
                                                  ELSE x.status
          /\ appointments' \ {y} = appointments \ {x}

\* C27: a PUT answered 200 for a stored appointment x updates x in place: as
\* many appointments are stored as before; the row keeps its id and
\* createdAt; every field the body supplies takes the value of the body and
\* every other field keeps the stored one; updatedAt is rewritten with the
\* instant the handler read from the clock when it called updateAppointment,
\* an instant of this request and not later than the clock; no other
\* appointment changes.
C27_UpdateInPlace ==
    /\ [](\A c \in Clients :
             inflight[c].pc = "update"
                 => inflight[c].stamp \in Times /\ inflight[c].stamp <= now)
    /\ [][\A c \in Clients :
             (PutUpdate(c) /\ resp'.code = 200) =>
                 \A x \in getAppointment(appointments, inflight[c].id) :
                     UpdatedInPlace(x, inflight[c].body,
                                    inflight[c].stamp)]_vars

\* the answers a handler gives when the request it resumes ends
AnswersOf(pc) ==
    IF pc = "create" THEN {201, 400}
    ELSE IF pc = "check" THEN {409, 400}
    ELSE {200, 400}

\* C29: every booking, PUT and DELETE is answered exactly once, also when a
\* storage call throws: a suspended request is eventually resumed and ends;
\* the step that ends it sends the one answer, 201 or 200 on success, 409 on
\* a conflict and 400 on a failure, and writes nothing unless it succeeds; a
\* step that leaves it suspended, or that suspends it, sends no answer; a
\* DELETE is answered 204, or 400 with nothing removed.
C29_ExactlyOneResponse ==
    /\ \A c \in Clients :
          (inflight[c].pc # "idle") ~> (inflight[c].pc = "idle")
    /\ [][\A c \in Clients :
             /\ (inflight[c].pc # "idle" /\ inflight'[c] # inflight[c])
                   => IF inflight'[c].pc = "idle"
                      THEN /\ resp'.op = opOf(inflight[c])
                           /\ resp'.code \in AnswersOf(inflight[c].pc)
                           /\ resp'.code >= 400 => appointments' = appointments
                      ELSE resp' = resp /\ appointments' = appointments
             /\ (inflight[c].pc = "idle" /\ inflight'[c].pc # "idle")
                   => resp' = resp /\ appointments' = appointments]_vars
    /\ [][resp'.op = "delete" =>
             \/ resp'.code = 204
             \/ resp'.code = 400 /\ appointments' = appointments]_vars

\* a booking that had passed its check has just been answered 400 because
\* its insert threw, while the request of the other client is suspended
C29_Witness ==
    /\ resp.op = "book" /\ resp.code = 400
    /\ \E c \in Clients : inflight[c].pc # "idle"

\* the step leaves every staff record the caller does not own as it was
OthersUntouched(caller) ==
    \A s \in DOMAIN userId :
        userId[s] # caller.id
            => /\ s \in DOMAIN userId'
               /\ userId'[s] = userId[s]
               /\ isActive'[s] = isActive[s]

\* the step adds no record owned by anyone but the caller
CreatedAsOwn(caller) ==
    /\ OthersUntouched(caller)
    /\ \A s \in DOMAIN userId' \ DOMAIN userId : userId'[s] = caller.id

\* C30: for a caller with role doctor, PUT and DELETE /api/staff/:id are
\* answered 403 with no record changed unless the record exists and its
\* userId is the caller's id; POST /api/staff stores the caller's id as
\* userId of the new record whatever the body names; and no step of a
\* doctor's request changes a record that another user owns.
C30_StaffOwnershipIsolation ==
    [][\A caller \in Doctors :
          /\ (UpdateStaffWrite(caller) \/ DeleteStaffWrite(caller))
                => OthersUntouched(caller)
          /\ \A id \in StaffRowIds :
                (/\ id \notin DOMAIN userId \/ userId[id] # caller.id
                 /\ \/ DeleteStaff(caller, id)
                    \/ \E body \in StaffInputs : UpdateStaff(caller, id, body))
                   => /\ resp'.code = 403
                      /\ UNCHANGED <<userId, isActive, staffInflight>>
          /\ (\E body \in StaffInputs : CreateStaff(caller, body))
                => CreatedAsOwn(caller)]_vars

=============================================================================
